---- MODULE Spec2Model ----
(***************************************************************************)
(* Interface and link lifecycle of netns (src/src/netns/interface.py).     *)
(*                                                                         *)
(* The state is the kernel as the backend (netns.iproute) and the          *)
(* namespace proxies (node._slave) show it, the Python objects of          *)
(* interface.py (interfaces and Links) and the class counter               *)
(* Interface._nextid.                                                      *)
(*                                                                         *)
(* Every method of interface.py is one operator from worlds to worlds,     *)
(* translated statement by statement.  A world carries, besides the state, *)
(* the backend and proxy calls the operation has issued, in order, and the *)
(* exception in flight.  Every call may fail, either because the kernel    *)
(* refuses it or because its position in the operation's call sequence is  *)
(* in the failure set F the operation is run with.  The properties are     *)
(* stated on the world an operation ends in, for every reachable state it  *)
(* can be called in.                                                       *)
(***************************************************************************)
EXTENDS Integers, Sequences, FiniteSets, TLC

(***************************************************************************)
(* Bounds of the model.                                                    *)
(***************************************************************************)
\* Number of name spaces (Node collaborators) besides the main one.
NumNodes == 2
\* Kernel interface indices available (pre-existing devices included).
MaxDev == 6
\* Interface objects created in one run.
MaxObjs == 2
\* Link objects created in one run.
MaxLinks == 2
\* Objects of either sort created in one run.
MaxTotal == 3
\* Backend/proxy calls made to fail in one run (the kernel's own refusals
\* are not counted).
MaxFail == 1
\* Positions of an operation's call sequence a failure can be drawn at.
MaxCalls == 8
\* Attribute assignments (interface or Link __setattr__) in one run.
MaxSets == 1
\* Values of Interface._nextid explored.
MaxNames == 3
\* Calls of one operation the properties make fail together.
MaxOpFail == 2
\* Threads that call the id generator, and the calls each of them makes.
NumThreads == 2
MaxThreadCalls == 2
\* Names drawn from the counter in one run of the name generators.
MaxGen == 4100
\* The length an interface name may have (IFNAMSIZ - 1).
NameMaxLen == 15

Nodes == 1..NumNodes
DevIds == 1..MaxDev

\* Values of the attributes the model tracks (mtu, up).
Mtus == {1500, 9000}
AttrVals(a) == IF a = "mtu" THEN Mtus ELSE BOOLEAN

\* Traffic parameters: a dict as a set of <<key, value>> pairs, value 0
\* standing for None.  Two of the eleven dimensions are tracked.
ParamKeys == {"bandwidth", "delay"}
ParamDict(b, d) == {<<"bandwidth", b>>, <<"delay", d>>}
ParamInputs == {ParamDict(0, 0), ParamDict(1, 0)}
EmptyDict == {}

VARIABLES
    kern,       \* kernel: index -> device record
    objs,       \* sequence of Python objects (interfaces and Links)
    reg,        \* node -> set of objects registered by node._add_interface
    nextid,     \* Interface._nextid
    pid,        \* os.getpid() of the orchestrating process
    nsets,      \* attribute assignments made so far (bounded by MaxSets)
    nfail,      \* failures injected so far (bounded by MaxFail)
    dead,       \* the objects whose destroy() has returned normally
    thr         \* thread -> its position in Interface._gen_next_id

vars == <<kern, objs, reg, nextid, pid, nsets, nfail, dead, thr>>

(***************************************************************************)
(* Name generation: "NETNSif-%.4x%.3x" % (os.getpid(), n).  %.Nx prints    *)
(* the number in hexadecimal with at least N digits, zero padded.          *)
(***************************************************************************)
HexDigit(d) ==
    CASE d = 0 -> "0" [] d = 1 -> "1" [] d = 2 -> "2" [] d = 3 -> "3"
      [] d = 4 -> "4" [] d = 5 -> "5" [] d = 6 -> "6" [] d = 7 -> "7"
      [] d = 8 -> "8" [] d = 9 -> "9" [] d = 10 -> "a" [] d = 11 -> "b"
      [] d = 12 -> "c" [] d = 13 -> "d" [] d = 14 -> "e" [] OTHER -> "f"

RECURSIVE Hex(_)
Hex(n) == IF n < 16 THEN HexDigit(n) ELSE Hex(n \div 16) \o HexDigit(n % 16)

RECURSIVE PadLeft(_, _)
PadLeft(s, w) == IF Len(s) >= w THEN s ELSE PadLeft("0" \o s, w)

\* "%.Nx" % n
FmtHex(n, w) == PadLeft(Hex(n), w)

gen_if_name(p, n) == "NETNSif-" \o FmtHex(p, 4) \o FmtHex(n, 3)
gen_br_name(p, n) == "NETNSbr-" \o FmtHex(p, 4) \o FmtHex(n, 3)

(***************************************************************************)
(* The kernel, as seen through netns.iproute (main name space, 0) and      *)
(* through a node's proxy (name space n of node n).                        *)
(***************************************************************************)
NoDev == [ex |-> FALSE, ns |-> 0, name |-> "", mtu |-> 0, up |-> FALSE,
          peer |-> 0, master |-> 0, tc |-> {}, kind |-> ""]
\* A deleted device: the kernel does not hand its index out again.
Gone == [NoDev EXCEPT !.kind = "gone"]

Dev(n, nm, kd, pr) ==
    [ex |-> TRUE, ns |-> n, name |-> nm, mtu |-> 1500, up |-> FALSE,
     peer |-> pr, master |-> 0, tc |-> {}, kind |-> kd]

\* Devices that exist in name space n.
DevsIn(k, n) == {d \in DevIds : k[d].ex /\ k[d].ns = n}
InNs(k, n, d) == d \in DevIds /\ k[d].ex /\ k[d].ns = n
NameFree(k, n, nm) == \A d \in DevsIn(k, n) : k[d].name # nm
\* The next index the kernel hands out (0: none left within MaxDev).
FreeIdx(k) ==
    IF \E d \in DevIds : k[d] = NoDev
    THEN CHOOSE d \in DevIds : k[d] = NoDev /\ \A e \in DevIds : e < d => k[e] # NoDev
    ELSE 0

\* A full attribute snapshot of device d (iproute.interface).
Snapshot(k, d) ==
    [index |-> d, name |-> k[d].name, mtu |-> k[d].mtu, up |-> k[d].up]
\* Python None for a snapshot.
NoneState == [index |-> 0]
\* iproute.interface(index = i) with one attribute set.
Partial(i, a, v) == IF a = "mtu" THEN [index |-> i, mtu |-> v]
                    ELSE [index |-> i, up |-> v]

\* The shaping a parameter dict stands for: its dimensions that are not None.
Shaping(p) == {kv \in p : kv[2] # 0}

\* Results of a backend operation on kernel k: [ok, k].
Refused(k) == [ok |-> FALSE, k |-> k]
Done(k) == [ok |-> TRUE, k |-> k]

K_create_if_pair(k, n1, n2) ==
    LET i1 == FreeIdx(k)
        k1 == IF i1 = 0 THEN k ELSE [k EXCEPT ![i1] = Dev(0, n1, "veth", 0)]
        i2 == FreeIdx(k1)
    IN  IF i1 = 0 \/ i2 = 0 \/ n1 = n2
           \/ ~NameFree(k, 0, n1) \/ ~NameFree(k, 0, n2)
        THEN Refused(k)
        ELSE Done([k EXCEPT ![i1] = Dev(0, n1, "veth", i2),
                            ![i2] = Dev(0, n2, "veth", i1)])

\* Deleting one end of a veth pair deletes the other end with it.
K_del_if(k, n, d) ==
    IF ~InNs(k, n, d) THEN Refused(k)
    ELSE LET pr == k[d].peer IN
         Done([e \in DevIds |->
                IF e = d \/ e = pr THEN Gone
                ELSE IF k[e].master = d THEN [k[e] EXCEPT !.master = 0]
                ELSE k[e]])

\* Moving a device to another name space releases it from its bridge.
K_change_netns(k, n, d, target) ==
    IF ~InNs(k, n, d) \/ target \notin 0..NumNodes THEN Refused(k)
    ELSE IF target # n /\ ~NameFree(k, target, k[d].name) THEN Refused(k)
    ELSE Done([k EXCEPT ![d].ns = target,
                        ![d].master = IF target = n THEN @ ELSE 0])

K_get_if(k, n, d) == IF InNs(k, n, d) THEN Done(k) ELSE Refused(k)

\* set_if applies the attributes the snapshot carries to device s.index.
K_set_if(k, n, s) ==
    IF ~InNs(k, n, s.index) THEN Refused(k)
    ELSE LET d == s.index
             has(a) == a \in DOMAIN s
         IN  IF has("name") /\ s.name # k[d].name /\ ~NameFree(k, n, s.name)
             THEN Refused(k)
             ELSE Done([k EXCEPT
                    ![d].name = IF has("name") THEN s.name ELSE @,
                    ![d].mtu = IF has("mtu") THEN s.mtu ELSE @,
                    ![d].up = IF has("up") THEN s.up ELSE @])

IsBridge(k, b) == InNs(k, 0, b) /\ k[b].kind = "bridge"

K_create_bridge(k, nm) ==
    LET i == FreeIdx(k) IN
    IF i = 0 \/ ~NameFree(k, 0, nm) THEN Refused(k)
    ELSE Done([k EXCEPT ![i] = Dev(0, nm, "bridge", 0)])

K_get_bridge(k, b) == IF IsBridge(k, b) THEN Done(k) ELSE Refused(k)

\* set_bridge applies up and mtu; stp and forward_delay are not tracked.
K_set_bridge(k, s) ==
    IF ~IsBridge(k, s.index) THEN Refused(k)
    ELSE LET d == s.index
             has(a) == a \in DOMAIN s
         IN  Done([k EXCEPT
                    ![d].mtu = IF has("mtu") THEN s.mtu ELSE @,
                    ![d].up = IF has("up") THEN s.up ELSE @])

\* A bridge that is up cannot be deleted; its ports are released.
K_del_bridge(k, b) ==
    IF ~IsBridge(k, b) \/ k[b].up THEN Refused(k)
    ELSE Done([e \in DevIds |->
                IF e = b THEN Gone
                ELSE IF k[e].master = b THEN [k[e] EXCEPT !.master = 0]
                ELSE k[e]])

\* A device has at most one master: enslaving a port twice is refused.
K_add_bridge_port(k, b, d) ==
    IF ~IsBridge(k, b) \/ ~InNs(k, 0, d) \/ d = b \/ k[d].master # 0
    THEN Refused(k)
    ELSE Done([k EXCEPT ![d].master = b])

K_del_bridge_port(k, b, d) ==
    IF ~IsBridge(k, b) \/ ~InNs(k, 0, d) \/ k[d].master # b THEN Refused(k)
    ELSE Done([k EXCEPT ![d].master = 0])

K_set_tc(k, d, p) ==
    IF ~InNs(k, 0, d) THEN Refused(k)
    ELSE Done([k EXCEPT ![d].tc = Shaping(p)])

(***************************************************************************)
(* Worlds.  An operation runs on a world: the kernel k, the objects, the   *)
(* registrations, the counter, the calls issued so far (tr), the failure   *)
(* set F and the exception in flight (err: 0 none, n > 0 the failure of    *)
(* the n-th call, -1 an AssertionError, -2 any other Python error).        *)
(***************************************************************************)
AssertionError == 0 - 1
PythonError == 0 - 2

World(F) == [k |-> kern, objs |-> objs, reg |-> reg, nextid |-> nextid,
             tr |-> <<>>, F |-> F, err |-> 0]

\* One backend (via = 0) or proxy (via = node) call: r is what the kernel
\* answers; the call fails when the kernel refuses or its position is in F.
Call(w, via, op, d, arg, r) ==
    LET pos == Len(w.tr) + 1
        bad == pos \in w.F \/ ~r.ok
    IN  [w EXCEPT !.k = IF bad THEN @ ELSE r.k,
                  !.tr = Append(@, [via |-> via, op |-> op, dev |-> d,
                                    arg |-> arg, ok |-> ~bad]),
                  !.err = IF bad THEN pos ELSE @]

Raising(w) == w.err # 0
Raise(w, e) == [w EXCEPT !.err = e]

c_create_if_pair(w, n1, n2) ==
    Call(w, 0, "create_if_pair", 0, [name |-> n1], K_create_if_pair(w.k, n1, n2))
c_del_if(w, via, d) ==
    Call(w, via, "del_if", d, [index |-> d], K_del_if(w.k, via, d))
c_change_netns(w, via, d, t) ==
    Call(w, via, "change_netns", d, [target |-> t], K_change_netns(w.k, via, d, t))
c_get_if(w, via, d) ==
    Call(w, via, "get_if", d, [index |-> d], K_get_if(w.k, via, d))
c_get_if_data(w, via) ==
    Call(w, via, "get_if_data", 0, [index |-> 0], Done(w.k))
c_set_if(w, via, s) ==
    Call(w, via, "set_if", s.index, s, K_set_if(w.k, via, s))
c_create_bridge(w, nm) ==
    Call(w, 0, "create_bridge", 0, [name |-> nm], K_create_bridge(w.k, nm))
c_get_bridge(w, b) ==
    Call(w, 0, "get_bridge", b, [index |-> b], K_get_bridge(w.k, b))
c_set_bridge(w, s) ==
    Call(w, 0, "set_bridge", s.index, s, K_set_bridge(w.k, s))
c_del_bridge(w, b) ==
    Call(w, 0, "del_bridge", b, [index |-> b], K_del_bridge(w.k, b))
c_add_bridge_port(w, b, d) ==
    Call(w, 0, "add_bridge_port", d, [index |-> b], K_add_bridge_port(w.k, b, d))
c_del_bridge_port(w, b, d) ==
    Call(w, 0, "del_bridge_port", d, [index |-> b], K_del_bridge_port(w.k, b, d))
c_set_tc(w, d, p) ==
    Call(w, 0, "set_tc", d, [params |-> p], K_set_tc(w.k, d, p))

\* The device named nm in name space n (as create_if_pair and
\* create_bridge look their results up).
DevByName(k, n, nm) == CHOOSE d \in DevsIn(k, n) : k[d].name = nm

(***************************************************************************)
(* Objects.                                                                *)
(***************************************************************************)
NSKinds == {"NodeInterface", "P2PInterface", "ForeignNodeInterface",
            "ImportedNodeInterface"}
ExternalKinds == {"SlaveInterface", "ForeignInterface", "Link"}

\* idx 0 is None; slave 0 is None; control 0 is None.
Obj(kind, idx) ==
    [kind |-> kind, idx |-> idx, slave |-> 0, orig |-> NoneState,
     control |-> 0, params |-> EmptyDict, ports |-> {}]

\* Interface.control: None, NodeInterface._control, or the object itself.
Control(os, o) ==
    IF os[o].kind \in ExternalKinds THEN o
    ELSE IF os[o].kind = "NodeInterface" THEN os[o].control
    ELSE 0

\* Interface._gen_next_id
gen_next_id(w) == [w EXCEPT !.nextid = @ + 1]

\* NSInterface.__init__(node, index) on a new object ob: the object is
\* appended, takes the node's proxy and is registered with the node.
NSInterface_init(w, ob, node, index) ==
    LET id == Len(w.objs) + 1 IN
    [w EXCEPT !.objs = Append(@, [ob EXCEPT !.idx = index, !.slave = node]),
              !.reg = [@ EXCEPT ![node] = @ \cup {id}]]

\* Mutant of NodeInterface.__init__: a failed migration is re-raised with
\* the control end left in place.
NodeInterface_init_no_rollback(w, node) ==
    LET n1 == gen_if_name(pid, w.nextid)
        n2 == gen_if_name(pid, w.nextid + 1)
        w0 == gen_next_id(gen_next_id(w))
        w1 == c_create_if_pair(w0, n1, n2)
    IN  IF Raising(w1) THEN w1 ELSE
        LET ctl == DevByName(w1.k, 0, n1)
            ns == DevByName(w1.k, 0, n2)
            w2 == c_change_netns(w1, 0, ns, node)
        IN  IF Raising(w2) THEN w2
            ELSE LET sl == Len(w2.objs) + 1
                     w3 == [w2 EXCEPT !.objs =
                              Append(@, Obj("SlaveInterface", ctl))]
                 IN  NSInterface_init(w3,
                        [Obj("NodeInterface", 0) EXCEPT !.control = sl],
                        node, ns)

\* NodeInterface.__init__(node)
NodeInterface_init(w, node) ==
    LET n1 == gen_if_name(pid, w.nextid)
        n2 == gen_if_name(pid, w.nextid + 1)
        w0 == gen_next_id(gen_next_id(w))
        w1 == c_create_if_pair(w0, n1, n2)
    IN  IF Raising(w1) THEN w1 ELSE
        LET ctl == DevByName(w1.k, 0, n1)
            ns == DevByName(w1.k, 0, n2)
            w2 == c_change_netns(w1, 0, ns, node)
        IN  IF Raising(w2)
            THEN LET w3 == c_del_if(Raise(w2, 0), 0, ctl) IN
                 IF Raising(w3) THEN w3 ELSE Raise(w3, w2.err)
            ELSE LET sl == Len(w2.objs) + 1
                     w3 == [w2 EXCEPT !.objs =
                              Append(@, Obj("SlaveInterface", ctl))]
                 IN  NSInterface_init(w3,
                        [Obj("NodeInterface", 0) EXCEPT !.control = sl],
                        node, ns)

\* P2PInterface.create_pair(node1, node2)
P2PInterface_create_pair(w, node1, node2) ==
    LET n1 == gen_if_name(pid, w.nextid)
        n2 == gen_if_name(pid, w.nextid + 1)
        w0 == gen_next_id(gen_next_id(w))
        w1 == c_create_if_pair(w0, n1, n2)
    IN  IF Raising(w1) THEN w1 ELSE
        LET p0 == DevByName(w1.k, 0, n1)
            p1 == DevByName(w1.k, 0, n2)
            w2 == c_change_netns(w1, 0, p0, node1)
            w3 == IF Raising(w2) THEN w2 ELSE c_change_netns(w2, 0, p1, node2)
        IN  IF Raising(w3)
            THEN LET w4 == c_del_if(Raise(w3, 0), 0, p0) IN
                 IF Raising(w4) THEN w4 ELSE Raise(w4, w3.err)
            ELSE NSInterface_init(
                    NSInterface_init(w3, Obj("P2PInterface", 0), node1, p0),
                    Obj("P2PInterface", 0), node2, p1)

\* ForeignNodeInterface.__init__(node, iface); the read is the proxy's
\* get_if_data(iface).
ForeignNodeInterface_init(w, node, iface) ==
    LET w1 == c_get_if(w, node, iface) IN
    IF Raising(w1) THEN w1 ELSE
    NSInterface_init(w1,
        [Obj("ForeignNodeInterface", 0) EXCEPT !.orig = Snapshot(w1.k, iface)],
        node, iface)

\* ImportedNodeInterface.__init__(node, iface)
ImportedNodeInterface_init(w, node, iface) ==
    LET w1 == c_get_if(w, 0, iface) IN
    IF Raising(w1) THEN w1 ELSE
    LET original == Snapshot(w1.k, iface)
        nm == gen_if_name(pid, w1.nextid)
        w2 == c_set_if(gen_next_id(w1), 0, [original EXCEPT !.name = nm])
    IN  IF Raising(w2) THEN w2 ELSE
        LET w3 == c_change_netns(w2, 0, iface, node) IN
        IF Raising(w3) THEN w3 ELSE
        NSInterface_init(w3,
            [Obj("ImportedNodeInterface", 0) EXCEPT !.orig = original],
            node, iface)

\* ForeignInterface.__init__(iface)
ForeignInterface_init(w, iface) ==
    LET w1 == c_get_if(w, 0, iface) IN
    IF Raising(w1) THEN w1 ELSE
    [w1 EXCEPT !.objs = Append(@,
        [Obj("ForeignInterface", iface) EXCEPT !.orig = Snapshot(w1.k, iface)])]

(***************************************************************************)
(* destroy() of the interface variants.                                    *)
(***************************************************************************)
SetObj(w, o, f, v) == [w EXCEPT !.objs[o] = [@ EXCEPT ![f] = v]]

\* Mutant of NodeInterface.destroy: the proxy reference is cleared before
\* the device is looked up and deleted.
NodeInterface_destroy_clears_first(w, o) ==
    LET sl == w.objs[o].slave IN
    IF sl = 0 THEN w ELSE
    LET w0 == SetObj(w, o, "slave", 0)
        w1 == c_get_if_data(w0, sl)
    IN  IF Raising(w1) THEN w1 ELSE
        IF w1.objs[o].idx \in DevsIn(w1.k, sl)
        THEN c_del_if(w1, sl, w1.objs[o].idx) ELSE w1

\* Mutant of NodeInterface.destroy: the proxy reference is not cleared.
NodeInterface_destroy_keeps_slave(w, o) ==
    LET sl == w.objs[o].slave IN
    IF sl = 0 THEN w ELSE
    LET w1 == c_get_if_data(w, sl) IN
    IF Raising(w1) THEN w1 ELSE
    IF w1.objs[o].idx \in DevsIn(w1.k, sl)
    THEN c_del_if(w1, sl, w1.objs[o].idx) ELSE w1

\* NodeInterface.destroy and P2PInterface.destroy (the same code)
NodeInterface_destroy(w, o) ==
    LET sl == w.objs[o].slave IN
    IF sl = 0 THEN w ELSE
    LET w1 == c_get_if_data(w, sl) IN
    IF Raising(w1) THEN w1 ELSE
    LET w2 == IF w1.objs[o].idx \in DevsIn(w1.k, sl)
              THEN c_del_if(w1, sl, w1.objs[o].idx) ELSE w1
    IN  IF Raising(w2) THEN w2 ELSE SetObj(w2, o, "slave", 0)

\* Mutant of ForeignNodeInterface.destroy: the snapshot is not written back.
ForeignNodeInterface_destroy_forgets(w, o) ==
    LET sl == w.objs[o].slave IN
    IF sl = 0 THEN w ELSE
    LET w1 == c_get_if_data(w, sl) IN
    IF Raising(w1) THEN w1 ELSE SetObj(w1, o, "slave", 0)

\* ForeignNodeInterface.destroy
ForeignNodeInterface_destroy(w, o) ==
    LET sl == w.objs[o].slave IN
    IF sl = 0 THEN w ELSE
    LET w1 == c_get_if_data(w, sl) IN
    IF Raising(w1) THEN w1 ELSE
    LET w2 == IF w1.objs[o].idx \in DevsIn(w1.k, sl)
              THEN c_set_if(w1, sl, w1.objs[o].orig) ELSE w1
    IN  IF Raising(w2) THEN w2 ELSE SetObj(w2, o, "slave", 0)

\* Mutant of ImportedNodeInterface.destroy: the snapshot is restored before
\* the device is migrated back.
ImportedNodeInterface_destroy_restores_first(w, o) ==
    LET sl == w.objs[o].slave IN
    IF sl = 0 THEN w ELSE
    LET w1 == c_get_if_data(w, sl) IN
    IF Raising(w1) THEN w1 ELSE
    LET w2 == c_set_if(w1, 0, w1.objs[o].orig) IN
    IF Raising(w2) THEN w2 ELSE
    LET w3 == IF w2.objs[o].idx \in DevsIn(w2.k, sl)
              THEN c_change_netns(w2, sl, w2.objs[o].idx, 0) ELSE w2
    IN  IF Raising(w3) THEN w3 ELSE SetObj(w3, o, "slave", 0)

\* ImportedNodeInterface.destroy
ImportedNodeInterface_destroy(w, o) ==
    LET sl == w.objs[o].slave IN
    IF sl = 0 THEN w ELSE
    LET w1 == c_get_if_data(w, sl) IN
    IF Raising(w1) THEN w1 ELSE
    LET w2 == IF w1.objs[o].idx \in DevsIn(w1.k, sl)
              THEN c_change_netns(w1, sl, w1.objs[o].idx, 0) ELSE w1
    IN  IF Raising(w2) THEN w2 ELSE
        LET w3 == c_set_if(w2, 0, w2.objs[o].orig) IN
        IF Raising(w3) THEN w3 ELSE SetObj(w3, o, "slave", 0)

\* SlaveInterface.destroy
SlaveInterface_destroy(w, o) == w

\* Mutant of ForeignInterface.destroy: the snapshot is dropped, not restored.
ForeignInterface_destroy_forgets(w, o) == SetObj(w, o, "orig", NoneState)

\* ForeignInterface.destroy
ForeignInterface_destroy(w, o) ==
    LET w1 == IF w.objs[o].orig # NoneState
              THEN c_set_if(w, 0, w.objs[o].orig) ELSE w
    IN  IF Raising(w1) THEN w1 ELSE SetObj(w1, o, "orig", NoneState)

(***************************************************************************)
(* Attribute assignment.                                                   *)
(***************************************************************************)
\* NSInterface.__setattr__(name, value), name not starting with "_"
NSInterface_setattr(w, o, a, v) ==
    IF w.objs[o].slave = 0 THEN Raise(w, PythonError)
    ELSE c_set_if(w, w.objs[o].slave, Partial(w.objs[o].idx, a, v))

\* Mutant of ExternalInterface.__setattr__: the interface is read first and
\* its whole snapshot written back with the one attribute changed.
ExternalInterface_setattr_read_first(w, o, a, v) ==
    LET w1 == c_get_if(w, 0, w.objs[o].idx) IN
    IF Raising(w1) THEN w1
    ELSE c_set_if(w1, 0, [Snapshot(w1.k, w1.objs[o].idx) EXCEPT ![a] = v])

\* ExternalInterface.__setattr__(name, value)
ExternalInterface_setattr(w, o, a, v) ==
    c_set_if(w, 0, Partial(w.objs[o].idx, a, v))

(***************************************************************************)
(* Link.                                                                   *)
(***************************************************************************)
\* The keys of a Link's _ports and the order values() is iterated in.
PortKeys(ps) == {p[1] : p \in ps}
PortObj(ps, i) == (CHOOSE p \in ps : p[1] = i)[2]
RECURSIVE Ascending(_)
Ascending(S) ==
    IF S = {} THEN <<>>
    ELSE LET m == CHOOSE x \in S : \A y \in S : x <= y
         IN  <<m>> \o Ascending(S \ {m})
PortValues(ps) ==
    LET ks == Ascending(PortKeys(ps)) IN [i \in 1..Len(ks) |-> PortObj(ps, ks[i])]

\* Link._apply_parameters(parameters, port): the loop over the ports, from
\* the i-th on; the first failing set_tc ends it.
RECURSIVE apply_loop(_, _, _, _)
apply_loop(w, ports, i, parameters) ==
    IF i > Len(ports) THEN w ELSE
    LET w1 == c_set_tc(w, w.objs[ports[i]].idx, parameters) IN
    IF Raising(w1) THEN w1 ELSE apply_loop(w1, ports, i + 1, parameters)

\* port = 0 is port = None: every port of the Link.
Link_apply_parameters(w, l, parameters, port) ==
    apply_loop(w, IF port # 0 THEN <<port>> ELSE PortValues(w.objs[l].ports),
               1, parameters)

\* Link.__setattr__(name, value) for up and mtu: the ports, then the bridge.
RECURSIVE setattr_loop(_, _, _, _, _)
setattr_loop(w, ports, i, a, v) ==
    IF i > Len(ports) THEN w ELSE
    LET w1 == ExternalInterface_setattr(w, ports[i], a, v) IN
    IF Raising(w1) THEN w1 ELSE setattr_loop(w1, ports, i + 1, a, v)

Link_setattr(w, l, a, v) ==
    LET w1 == setattr_loop(w, PortValues(w.objs[l].ports), 1, a, v) IN
    IF Raising(w1) THEN w1
    ELSE c_set_bridge(w1, Partial(w1.objs[l].idx, a, v))

\* Link.__init__(**args); args = EmptyDict is a call without arguments.
\* stp and forward_delay are set on the bridge alone.
Link_init(w, args) ==
    LET nm == gen_br_name(pid, w.nextid)
        w1 == c_create_bridge(gen_next_id(w), nm)
    IN  IF Raising(w1) THEN w1 ELSE
        LET b == DevByName(w1.k, 0, nm)
            w2 == c_set_bridge(w1, [index |-> b, stp |-> FALSE])
        IN  IF Raising(w2) THEN w2 ELSE
            LET w3 == c_set_bridge(w2, [index |-> b, forward_delay |-> 0]) IN
            IF Raising(w3) THEN w3 ELSE
            [w3 EXCEPT !.objs = Append(@, [Obj("Link", b) EXCEPT !.params = args])]

\* Link.connect(iface)
Link_connect(w, l, iface) ==
    LET c == Control(w.objs, iface) IN
    IF c = 0 THEN Raise(w, PythonError) ELSE
    LET ci == w.objs[c].idx
        me == w.objs[l]
    IN  IF ci \in PortKeys(me.ports) THEN Raise(w, AssertionError) ELSE
        LET w1 == Link_apply_parameters(w, l, me.params, c)
            w2 == IF Raising(w1) THEN w1 ELSE c_add_bridge_port(w1, me.idx, ci)
        IN  IF Raising(w2)
            THEN LET w3 == Link_apply_parameters(Raise(w2, 0), l, EmptyDict, c) IN
                 IF Raising(w3) THEN w3 ELSE Raise(w3, w2.err)
            ELSE
            LET w3 == c_get_bridge(w2, me.idx) IN
            IF Raising(w3) THEN w3 ELSE
            LET w4 == ExternalInterface_setattr(w3, c, "up", w3.k[me.idx].up) IN
            IF Raising(w4) THEN w4 ELSE
            LET w5 == c_get_bridge(w4, me.idx) IN
            IF Raising(w5) THEN w5 ELSE
            LET w6 == ExternalInterface_setattr(w5, c, "mtu", w5.k[me.idx].mtu) IN
            IF Raising(w6) THEN w6 ELSE
            SetObj(w6, l, "ports", me.ports \cup {<<ci, c>>})

\* Mutant of Link.disconnect: the port's shaping is left as it is.
Link_disconnect_keeps_tc(w, l, iface) ==
    LET c == Control(w.objs, iface) IN
    IF c = 0 THEN Raise(w, PythonError) ELSE
    LET ci == w.objs[c].idx
        me == w.objs[l]
    IN  IF ci \notin PortKeys(me.ports) THEN Raise(w, AssertionError) ELSE
        LET w1 == c_del_bridge_port(w, me.idx, ci) IN
        IF Raising(w1) THEN w1 ELSE
        SetObj(w1, l, "ports", {p \in me.ports : p[1] # ci})

\* Link.disconnect(iface)
Link_disconnect(w, l, iface) ==
    LET c == Control(w.objs, iface) IN
    IF c = 0 THEN Raise(w, PythonError) ELSE
    LET ci == w.objs[c].idx
        me == w.objs[l]
    IN  IF ci \notin PortKeys(me.ports) THEN Raise(w, AssertionError) ELSE
        LET w1 == c_del_bridge_port(w, me.idx, ci) IN
        IF Raising(w1) THEN w1 ELSE
        LET w2 == Link_apply_parameters(w1, l, EmptyDict, c) IN
        IF Raising(w2) THEN w2 ELSE
        SetObj(w2, l, "ports", {p \in me.ports : p[1] # ci})

\* Mutant of Link.set_parameters: a failed application is re-raised without
\* the previous parameters being applied again.
Link_set_parameters_no_reapply(w, l, parameters) ==
    LET w1 == Link_apply_parameters(w, l, parameters, 0) IN
    IF Raising(w1) THEN w1 ELSE SetObj(w1, l, "params", parameters)

\* Link.set_parameters(**parameters)
Link_set_parameters(w, l, parameters) ==
    LET w1 == Link_apply_parameters(w, l, parameters, 0) IN
    IF Raising(w1)
    THEN LET w2 == Link_apply_parameters(Raise(w1, 0), l, w1.objs[l].params, 0) IN
         IF Raising(w2) THEN w2 ELSE Raise(w2, w1.err)
    ELSE SetObj(w1, l, "params", parameters)

\* Mutant of the loop of Link.destroy: the first failing disconnect ends it.
RECURSIVE disconnect_loop_ends_early(_, _, _, _)
disconnect_loop_ends_early(w, l, ports, i) ==
    IF i > Len(ports) THEN w ELSE
    LET w1 == Link_disconnect(w, l, ports[i]) IN
    IF Raising(w1) THEN Raise(w1, 0)
    ELSE disconnect_loop_ends_early(w1, l, ports, i + 1)

\* The loop of Link.destroy: disconnect every port, failures swallowed.
RECURSIVE disconnect_loop(_, _, _, _)
disconnect_loop(w, l, ports, i) ==
    IF i > Len(ports) THEN w ELSE
    disconnect_loop(Raise(Link_disconnect(w, l, ports[i]), 0), l, ports, i + 1)

\* Link.destroy
Link_destroy(w, l) ==
    IF w.objs[l].idx = 0 THEN w ELSE
    LET w1 == Link_setattr(w, l, "up", FALSE) IN
    IF Raising(w1) THEN w1 ELSE
    LET w2 == disconnect_loop(w1, l, PortValues(w1.objs[l].ports), 1)
        w3 == SetObj(w2, l, "ports", {})
        w4 == c_del_bridge(w3, w3.objs[l].idx)
    IN  IF Raising(w4) THEN w4 ELSE SetObj(w4, l, "idx", 0)

\* destroy() dispatched on the object's class.
destroy(w, o) ==
    CASE w.objs[o].kind \in {"NodeInterface", "P2PInterface"} ->
            NodeInterface_destroy(w, o)
      [] w.objs[o].kind = "ForeignNodeInterface" -> ForeignNodeInterface_destroy(w, o)
      [] w.objs[o].kind = "ImportedNodeInterface" -> ImportedNodeInterface_destroy(w, o)
      [] w.objs[o].kind = "SlaveInterface" -> SlaveInterface_destroy(w, o)
      [] w.objs[o].kind = "ForeignInterface" -> ForeignInterface_destroy(w, o)
      [] OTHER -> Link_destroy(w, o)

(***************************************************************************)
(* The state machine.                                                      *)
(***************************************************************************)
\* The failure sets an operation is tried with.  n is the number of calls
\* the operation issues when no failure is injected; with failures injected
\* it issues at most 2n (each call is compensated at most once), so no
\* position beyond that is ever reached.
Min(a, b) == IF a < b THEN a ELSE b
Failures(n) ==
    {F \in SUBSET (1..Min(2 * n, MaxCalls)) : Cardinality(F) <= MaxFail - nfail}
Calls(w) == Len(w.tr)
LinkArgs == {EmptyDict, ParamDict(0, 1)}
ObjIds == 1..Len(objs)
LinkIds == {o \in ObjIds : objs[o].kind = "Link"}
IfaceIds == ObjIds \ LinkIds
\* The devices the adopting constructors are tried on: those that exist
\* without the library having created them.
Adoptable == {d \in DevIds : kern[d].kind = "phys"}

\* The calls of a world's call sequence that failed.
Failed(w) == {i \in 1..Len(w.tr) : ~w.tr[i].ok}

\* A thread in Interface._gen_next_id: where it is (pc), its local n, the
\* value it loaded for the increment (tmp) and what its calls returned.
Threads == 1..NumThreads
Idle == [pc |-> "idle", n |-> 0, tmp |-> 0, rets |-> <<>>]

\* Before any call: three devices exist that the library did not create,
\* eth0 and eth1 in the main name space and lo in the name space of node 1.
Init ==
    /\ kern = [d \in DevIds |->
                 IF d = 1 THEN [Dev(0, "eth0", "phys", 0) EXCEPT !.up = TRUE]
                 ELSE IF d = 2 THEN Dev(0, "eth1", "phys", 0)
                 ELSE IF d = 3 THEN [Dev(1, "lo", "phys", 0) EXCEPT !.up = TRUE]
                 ELSE NoDev]
    /\ objs = <<>>
    /\ reg = [n \in Nodes |-> {}]
    /\ nextid = 0
    /\ pid = 4660
    /\ nsets = 0
    /\ nfail = 0
    /\ dead = {}
    /\ thr = [t \in Threads |-> Idle]

\* The world an operation ends in becomes the state.  Every failure drawn
\* is the failure of a call the operation issued.
Commit(w) ==
    /\ w.F \subseteq 1..Len(w.tr)
    /\ nfail' = nfail + Cardinality(w.F)
    /\ kern' = w.k
    /\ objs' = w.objs
    /\ reg' = w.reg
    /\ nextid' = w.nextid
    /\ pid' = pid
    /\ thr' = thr

NewNodeInterface ==
    \E node \in Nodes :
      \E F \in Failures(Calls(NodeInterface_init(World({}), node))) :
        /\ Cardinality(IfaceIds) + 2 <= MaxObjs /\ Len(objs) + 2 <= MaxTotal
        /\ nextid + 2 <= MaxNames
        /\ Commit(NodeInterface_init(World(F), node))
        /\ UNCHANGED <<nsets, dead>>

CreatePair ==
    \E node1 \in Nodes, node2 \in Nodes :
      \E F \in Failures(Calls(P2PInterface_create_pair(World({}), node1, node2))) :
        /\ Cardinality(IfaceIds) + 2 <= MaxObjs /\ Len(objs) + 2 <= MaxTotal
        /\ nextid + 2 <= MaxNames
        /\ Commit(P2PInterface_create_pair(World(F), node1, node2))
        /\ UNCHANGED <<nsets, dead>>

NewForeignNodeInterface ==
    \E node \in Nodes, iface \in Adoptable :
      \E F \in Failures(Calls(ForeignNodeInterface_init(World({}), node, iface))) :
        /\ Cardinality(IfaceIds) + 1 <= MaxObjs /\ Len(objs) + 1 <= MaxTotal
        /\ Commit(ForeignNodeInterface_init(World(F), node, iface))
        /\ UNCHANGED <<nsets, dead>>

NewImportedNodeInterface ==
    \E node \in Nodes, iface \in Adoptable :
      \E F \in Failures(Calls(ImportedNodeInterface_init(World({}), node, iface))) :
        /\ Cardinality(IfaceIds) + 1 <= MaxObjs /\ Len(objs) + 1 <= MaxTotal
        /\ nextid + 1 <= MaxNames
        /\ Commit(ImportedNodeInterface_init(World(F), node, iface))
        /\ UNCHANGED <<nsets, dead>>

NewForeignInterface ==
    \E iface \in Adoptable :
      \E F \in Failures(Calls(ForeignInterface_init(World({}), iface))) :
        /\ Cardinality(IfaceIds) + 1 <= MaxObjs /\ Len(objs) + 1 <= MaxTotal
        /\ Commit(ForeignInterface_init(World(F), iface))
        /\ UNCHANGED <<nsets, dead>>

NewLink ==
    \E args \in LinkArgs :
      \E F \in Failures(Calls(Link_init(World({}), args))) :
        /\ Cardinality(LinkIds) + 1 <= MaxLinks /\ Len(objs) + 1 <= MaxTotal
        /\ nextid + 1 <= MaxNames
        /\ Commit(Link_init(World(F), args))
        /\ UNCHANGED <<nsets, dead>>

Destroy ==
    \E o \in ObjIds :
      \E F \in Failures(Calls(destroy(World({}), o))) :
        /\ Commit(destroy(World(F), o))
        /\ dead' = IF destroy(World(F), o).err = 0 THEN dead \cup {o} ELSE dead
        /\ UNCHANGED nsets

\* obj.name = value, dispatched on the object's class.
setattr(w, o, a, v) ==
    CASE w.objs[o].kind \in NSKinds -> NSInterface_setattr(w, o, a, v)
      [] w.objs[o].kind = "Link" -> Link_setattr(w, o, a, v)
      [] OTHER -> ExternalInterface_setattr(w, o, a, v)

SetAttr ==
    \E o \in ObjIds, a \in {"mtu", "up"} :
      \E v \in AttrVals(a) :
        \E F \in Failures(Calls(setattr(World({}), o, a, v))) :
            /\ nsets < MaxSets
            /\ nsets' = nsets + 1
            /\ dead' = dead
            /\ Commit(setattr(World(F), o, a, v))

Connect ==
    \E l \in LinkIds, iface \in IfaceIds :
      \E F \in Failures(Calls(Link_connect(World({}), l, iface))) :
        /\ Commit(Link_connect(World(F), l, iface))
        /\ UNCHANGED <<nsets, dead>>

Disconnect ==
    \E l \in LinkIds, iface \in IfaceIds :
      \E F \in Failures(Calls(Link_disconnect(World({}), l, iface))) :
        /\ Commit(Link_disconnect(World(F), l, iface))
        /\ UNCHANGED <<nsets, dead>>

SetParameters ==
    \E l \in LinkIds, parameters \in ParamInputs :
      \E F \in Failures(Calls(Link_set_parameters(World({}), l, parameters))) :
        /\ Commit(Link_set_parameters(World(F), l, parameters))
        /\ UNCHANGED <<nsets, dead>>

\* The environment: a device that is not virtual leaves a node's name space
\* and is back in the main one.
DeviceReturns ==
    \E d \in DevIds :
        /\ kern[d].ex /\ kern[d].kind = "phys" /\ kern[d].ns # 0
        /\ NameFree(kern, 0, kern[d].name)
        /\ kern' = [kern EXCEPT ![d].ns = 0]
        /\ UNCHANGED <<objs, reg, nextid, pid, nsets, nfail, dead, thr>>

\* The life cycle of every variant and of Links: creation and destruction.
Next ==
    \/ NewNodeInterface
    \/ CreatePair
    \/ NewForeignNodeInterface
    \/ NewImportedNodeInterface
    \/ NewForeignInterface
    \/ NewLink
    \/ Destroy

Spec == Init /\ [][Next]_vars

\* The adopting variants: devices that exist beforehand are adopted, their
\* attributes assigned, the objects destroyed, while a device may return to
\* the main name space on its own.
NextAdopt ==
    \/ NewForeignNodeInterface
    \/ NewImportedNodeInterface
    \/ NewForeignInterface
    \/ SetAttr
    \/ Destroy
    \/ DeviceReturns

SpecAdopt == Init /\ [][NextAdopt]_vars

\* Links and their ports.
NextLink ==
    \/ NewNodeInterface
    \/ NewForeignInterface
    \/ NewLink
    \/ Connect
    \/ Disconnect
    \/ SetParameters
    \/ Destroy

SpecLink == Init /\ [][NextLink]_vars

\* Name generation on its own: a process of some pid draws names.
PidInputs == {1, 4660, 65535, 65536}

InitNames ==
    /\ kern = [d \in DevIds |-> NoDev]
    /\ objs = <<>>
    /\ reg = [n \in Nodes |-> {}]
    /\ nextid = 0
    /\ pid \in PidInputs
    /\ nsets = 0
    /\ nfail = 0
    /\ dead = {}
    /\ thr = [t \in Threads |-> Idle]

\* Interface._gen_if_name(): the counter advances, the name is returned.
GenIfName ==
    /\ nextid < MaxGen
    /\ Len(gen_if_name(pid, nextid)) > 0
    /\ nextid' = gen_next_id(World({})).nextid
    /\ UNCHANGED <<kern, objs, reg, pid, nsets, nfail, dead, thr>>

\* Link._gen_br_name(): the same counter.
GenBrName ==
    /\ nextid < MaxGen
    /\ Len(gen_br_name(pid, nextid)) > 0
    /\ nextid' = gen_next_id(World({})).nextid
    /\ UNCHANGED <<kern, objs, reg, pid, nsets, nfail, dead, thr>>

NextNames == GenIfName \/ GenBrName

SpecNames == InitNames /\ [][NextNames]_vars

\* Interface._gen_next_id run by several threads, one bytecode-level step
\* at a time.  n = Interface._nextid
GenRead ==
    \E t \in Threads :
        /\ thr[t].pc = "idle" /\ Len(thr[t].rets) < MaxThreadCalls
        /\ thr' = [thr EXCEPT ![t].pc = "load", ![t].n = nextid]
        /\ UNCHANGED <<kern, objs, reg, nextid, pid, nsets, nfail, dead>>

\* Interface._nextid += 1: the attribute is loaded ...
GenLoad ==
    \E t \in Threads :
        /\ thr[t].pc = "load"
        /\ thr' = [thr EXCEPT ![t].pc = "store", ![t].tmp = nextid]
        /\ UNCHANGED <<kern, objs, reg, nextid, pid, nsets, nfail, dead>>

\* ... and the sum stored; return n
GenStore ==
    \E t \in Threads :
        /\ thr[t].pc = "store"
        /\ nextid' = thr[t].tmp + 1
        /\ thr' = [thr EXCEPT ![t].pc = "idle",
                              ![t].rets = Append(@, thr[t].n)]
        /\ UNCHANGED <<kern, objs, reg, pid, nsets, nfail, dead>>

NextThreads == GenRead \/ GenLoad \/ GenStore

SpecThreads == Init /\ [][NextThreads]_vars

(***************************************************************************)
(* The properties.  Each is stated on the world an operation ends in, for  *)
(* every state the operation can be called in and every set of at most     *)
(* MaxOpFail of its calls failing.                                         *)
(***************************************************************************)
OpFailures(n) ==
    {F \in SUBSET (1..Min(2 * n, MaxCalls)) : Cardinality(F) <= MaxOpFail}
\* The names a constructor called in the current state generates.
Name1 == gen_if_name(pid, nextid)
Name2 == gen_if_name(pid, nextid + 1)
\* No device, in any name space, carries name nm in kernel k.
Unresolvable(k, nm) == \A d \in DevIds : k[d].ex => k[d].name # nm

(***************************************************************************)
(* C1: once destroy() has returned normally on an object of any variant    *)
(* or on a Link, a later destroy() on the same object raises no error and  *)
(* issues no backend or proxy call (whatever call would fail), and leaves  *)
(* the kernel and the objects as they are.                                 *)
(***************************************************************************)
C1_DestroyIdempotent ==
    \A o \in dead : \A F \in OpFailures(1) :
        LET w == destroy(World(F), o) IN
        w.err = 0 /\ w.tr = <<>> /\ w.k = kern /\ w.objs = objs

\* A destroyed Link and a destroyed NodeInterface whose device the first
\* destroy() deleted: the second destroy() of each is the case of C1.
C1_Witness ==
    \E l \in dead, o \in dead :
        /\ objs[l].kind = "Link" /\ objs[l].idx = 0
        /\ objs[o].kind = "NodeInterface" /\ kern[objs[o].idx].kind = "gone"
        /\ destroy(World({}), l).tr = <<>>
        /\ destroy(World({}), o).tr = <<>>

(***************************************************************************)
(* C2: when the migration of the name-space end fails in                   *)
(* NodeInterface.__init__ (the pair was created, the second call failed),  *)
(* the constructor issues exactly one more call, the deletion of the       *)
(* control end through the backend, and raises; no SlaveInterface or       *)
(* NodeInterface object comes to exist and nothing is registered with the  *)
(* node; and once that deletion is carried out, the migration's error is   *)
(* the one raised and neither generated name is resolvable in any name     *)
(* space.                                                                  *)
(***************************************************************************)
C2_NodeInterfaceRollback ==
    \A node \in Nodes : \A F \in OpFailures(2) :
        LET w == NodeInterface_init(World(F), node) IN
        (Len(w.tr) >= 2 /\ w.tr[1].ok /\ ~w.tr[2].ok) =>
            /\ Len(w.tr) = 3
            /\ w.tr[2].op = "change_netns"
            /\ w.tr[3].op = "del_if" /\ w.tr[3].via = 0
            /\ w.tr[3].dev = FreeIdx(kern)
            /\ w.err # 0
            /\ w.objs = objs /\ w.reg = reg
            /\ w.tr[3].ok =>
                  /\ w.err = 2
                  /\ Unresolvable(w.k, Name1) /\ Unresolvable(w.k, Name2)

\* The migration fails, the control end is deleted and both ends are gone,
\* in a state where a Link already exists.
C2_Witness ==
    \E node \in Nodes :
        LET w == NodeInterface_init(World({2}), node) IN
        /\ LinkIds # {}
        /\ Len(w.tr) = 3 /\ w.tr[1].ok /\ ~w.tr[2].ok /\ w.tr[3].ok
        /\ w.err = 2
        /\ \E d \in DevIds : kern[d] = NoDev /\ w.k[d] = Gone
        /\ Unresolvable(w.k, Name1) /\ Unresolvable(w.k, Name2)

(***************************************************************************)
(* C3: when one of the two migrations of P2PInterface.create_pair fails    *)
(* (and no other call is made to fail), the call raises and neither end of *)
(* the pair it created exists in any name space afterwards, the cleanup    *)
(* having deleted the pair.                                                *)
(***************************************************************************)
C3_CreatePairRollback ==
    \A node1 \in Nodes, node2 \in Nodes : \A F \in {{2}, {3}} :
        LET w == P2PInterface_create_pair(World(F), node1, node2) IN
        (Len(w.tr) >= 2 /\ w.tr[1].ok) =>
            /\ w.err # 0
            /\ Unresolvable(w.k, Name1) /\ Unresolvable(w.k, Name2)
            /\ \E i \in 1..Len(w.tr) : w.tr[i].op = "del_if" /\ w.tr[i].ok

(***************************************************************************)
(* C4: for a Link with parameters P1 and any ports, when set_parameters(P2)*)
(* fails on some port and the error of that failed application is the one  *)
(* propagated (the re-application of P1 went through), every port has P1   *)
(* as its shaping; whenever set_parameters raises, the Link's parameters   *)
(* and ports are what they were; and the parameters become P2 only on a    *)
(* run in which P2 was applied to every port.                              *)
(***************************************************************************)
C4_SetParametersAtomic ==
    \A l \in LinkIds, P2 \in ParamInputs :
      \A F \in OpFailures(Calls(Link_set_parameters(World({}), l, P2))) :
        LET w == Link_set_parameters(World(F), l, P2)
            P1 == objs[l].params
            ports == PortKeys(objs[l].ports)
            np == Cardinality(ports)
        IN  /\ w.err # 0 => w.objs = objs
            /\ (w.err > 0 /\ Failed(w) = {w.err}) =>
                  \A i \in ports : w.k[i].tc = Shaping(P1)
            /\ w.err = 0 =>
                  /\ w.objs[l].params = P2
                  /\ Len(w.tr) = np
                  /\ \A i \in ports : w.k[i].tc = Shaping(P2)
                  /\ \A i \in ports : \E j \in 1..np :
                        /\ w.tr[j].op = "set_tc" /\ w.tr[j].dev = i
                        /\ w.tr[j].arg.params = P2 /\ w.tr[j].ok

\* A Link with two ports shaped by P1; P2 is applied to the first port and
\* fails on the second; both ports end with P1 and the Link keeps P1.
C4_Witness ==
    \E l \in LinkIds, P2 \in ParamInputs :
        LET w == Link_set_parameters(World({2}), l, P2)
            P1 == objs[l].params
            ports == PortKeys(objs[l].ports)
        IN  /\ Cardinality(ports) = 2
            /\ Shaping(P1) # Shaping(P2)
            /\ \A i \in ports : kern[i].tc = Shaping(P1)
            /\ Len(w.tr) = 4 /\ w.tr[1].ok /\ ~w.tr[2].ok
            /\ w.tr[1].arg.params = P2 /\ w.tr[3].arg.params = P1
            /\ w.err = 2
            /\ \A i \in ports : w.k[i].tc = Shaping(P1)
            /\ w.objs[l].params = P1

(***************************************************************************)
(* C5: connect(interface) on a Link raises an AssertionError, issues no    *)
(* call and leaves the ports of every Link unchanged whenever the index of *)
(* interface.control is a port of that Link or of any other Link; and an   *)
(* index is a port of at most one Link.                                    *)
(***************************************************************************)
C5_PortExclusivity ==
    /\ \A l \in LinkIds, iface \in IfaceIds :
         LET c == Control(objs, iface)
             w == Link_connect(World({}), l, iface)
         IN  (c # 0 /\ \E l2 \in LinkIds : objs[c].idx \in PortKeys(objs[l2].ports))
             => /\ w.err = AssertionError
                /\ w.tr = <<>>
                /\ \A l3 \in LinkIds : w.objs[l3].ports = objs[l3].ports
    /\ \A l1 \in LinkIds, l2 \in LinkIds :
         l1 # l2 => PortKeys(objs[l1].ports) \cap PortKeys(objs[l2].ports) = {}

(***************************************************************************)
(* C6: when every port of every Link is a member of the Link's bridge and  *)
(* has the Link's parameters as its shaping, this is still so after a      *)
(* successful connect, disconnect or set_parameters (and it is so for a    *)
(* Link just constructed); a successful connect registers the interface's  *)
(* control index; and after a successful disconnect the interface is not a *)
(* member of the bridge, has no shaping and its index is not in ports.     *)
(***************************************************************************)
LinksOk(os, k) ==
    \A l \in 1..Len(os) : os[l].kind = "Link" =>
        \A p \in os[l].ports :
            /\ InNs(k, 0, p[1])
            /\ os[l].idx # 0 /\ k[p[1]].master = os[l].idx
            /\ k[p[1]].tc = Shaping(os[l].params)
            /\ os[p[2]].idx = p[1]

C6_PortsFollowLink ==
    LinksOk(objs, kern) =>
        /\ \A args \in LinkArgs :
             LET w == Link_init(World({}), args) IN
             w.err = 0 => LinksOk(w.objs, w.k)
        /\ \A l \in LinkIds, iface \in IfaceIds :
             LET w == Link_connect(World({}), l, iface) IN
             w.err = 0 =>
                /\ LinksOk(w.objs, w.k)
                /\ objs[Control(objs, iface)].idx \in PortKeys(w.objs[l].ports)
        /\ \A l \in LinkIds, iface \in IfaceIds :
             LET w == Link_disconnect(World({}), l, iface) IN
             w.err = 0 =>
                LET ci == objs[Control(objs, iface)].idx IN
                /\ LinksOk(w.objs, w.k)
                /\ w.k[ci].master # objs[l].idx
                /\ w.k[ci].tc = {}
                /\ ci \notin PortKeys(w.objs[l].ports)
        /\ \A l \in LinkIds, P2 \in ParamInputs :
             LET w == Link_set_parameters(World({}), l, P2) IN
             w.err = 0 => LinksOk(w.objs, w.k)

\* A Link with shaping parameters and a port that has them applied; the
\* port is disconnected successfully.
C6_Witness ==
    /\ LinksOk(objs, kern)
    /\ \E l \in LinkIds, iface \in IfaceIds :
         LET w == Link_disconnect(World({}), l, iface)
             ci == objs[Control(objs, iface)].idx
         IN  /\ Control(objs, iface) # 0
             /\ ci \in PortKeys(objs[l].ports)
             /\ kern[ci].tc # {} /\ kern[ci].master = objs[l].idx
             /\ w.err = 0 /\ w.k[ci].tc = {} /\ w.k[ci].master = 0

(***************************************************************************)
(* C8: Link.destroy() on a live Link, once the Link and its ports have     *)
(* been set down, attempts a disconnect on every registered port whichever *)
(* disconnects fail, propagates none of their failures, and ends with the  *)
(* deletion of the bridge, the port set being empty; when that deletion is *)
(* carried out destroy returns normally, the bridge is gone and the Link's *)
(* index is None.                                                          *)
(***************************************************************************)
C8_DestroyReachesDeletion ==
    \A l \in LinkIds : objs[l].idx # 0 =>
      \A F \in OpFailures(Calls(Link_destroy(World({}), l))) :
        LET w == Link_destroy(World(F), l)
            ports == PortKeys(objs[l].ports)
            np == Cardinality(ports)
            n == Len(w.tr)
        IN  (n > np + 1 /\ Failed(w) \cap (1..(np + 1)) = {}) =>
              /\ \A i \in ports : \E j \in (np + 2)..n :
                    w.tr[j].op = "del_bridge_port" /\ w.tr[j].dev = i
              /\ w.tr[n].op = "del_bridge" /\ w.tr[n].dev = objs[l].idx
              /\ w.objs[l].ports = {}
              /\ w.err \in {0, n}
              /\ w.tr[n].ok =>
                    /\ w.err = 0
                    /\ w.objs[l].idx = 0
                    /\ w.k[objs[l].idx] = Gone

\* A live Link with two ports; the disconnect of each port fails, and
\* destroy still deletes the bridge and returns normally.
C8_Witness ==
    \E l \in LinkIds : \E F \in OpFailures(Calls(Link_destroy(World({}), l))) :
        LET w == Link_destroy(World(F), l)
            ports == PortKeys(objs[l].ports)
        IN  /\ objs[l].idx # 0 /\ Cardinality(ports) = 2
            /\ Cardinality(F) = 2
            /\ \A j \in F : j <= Len(w.tr) /\ w.tr[j].op = "del_bridge_port"
            /\ w.err = 0 /\ w.objs[l].idx = 0 /\ w.objs[l].ports = {}
            /\ w.k[objs[l].idx] = Gone

(***************************************************************************)
(* C7: a ForeignInterface is constructed with the snapshot S of the        *)
(* device's attributes and changes nothing in the kernel; assigning        *)
(* attributes through the object leaves S as it is; and destroy() on the   *)
(* live object never deletes the device and, when it returns normally,     *)
(* leaves the device's attributes equal to S.                              *)
(***************************************************************************)
C7_ForeignRoundTrip ==
    /\ \A iface \in Adoptable :
         LET w == ForeignInterface_init(World({}), iface) IN
         w.err = 0 =>
            /\ w.k = kern /\ InNs(kern, 0, iface)
            /\ w.objs[Len(w.objs)].idx = iface
            /\ w.objs[Len(w.objs)].orig = Snapshot(kern, iface)
    /\ \A o \in ObjIds :
         (objs[o].kind = "ForeignInterface" /\ objs[o].orig # NoneState) =>
            LET d == objs[o].idx IN
            /\ objs[o].orig.index = d
            /\ \A a \in {"mtu", "up"} : \A v \in AttrVals(a) :
                 setattr(World({}), o, a, v).objs = objs
            /\ \A F \in OpFailures(1) :
                 LET w == ForeignInterface_destroy(World(F), o) IN
                 /\ w.k[d].ex = kern[d].ex /\ w.k[d].ns = kern[d].ns
                 /\ \A j \in 1..Len(w.tr) : w.tr[j].op = "set_if"
                 /\ w.err = 0 =>
                       /\ InNs(w.k, 0, d)
                       /\ Snapshot(w.k, d) = objs[o].orig

\* A live ForeignInterface whose device has had an attribute assigned since
\* adoption; destroy() returns normally and the attributes are S again.
C7_Witness ==
    \E o \in ObjIds :
        LET w == ForeignInterface_destroy(World({}), o)
            d == objs[o].idx
        IN  /\ objs[o].kind = "ForeignInterface" /\ objs[o].orig # NoneState
            /\ nsets > 0
            /\ Snapshot(kern, d) # objs[o].orig
            /\ w.err = 0 /\ Len(w.tr) = 1
            /\ Snapshot(w.k, d) = objs[o].orig /\ w.k[d].ex

(***************************************************************************)
(* C9: for any pid and any number of names drawn, each generated name has  *)
(* at most 15 characters and differs from every name generated before it   *)
(* in the process.                                                         *)
(***************************************************************************)
C9_NamesDistinctAndShort ==
    /\ Len(gen_if_name(pid, nextid)) <= NameMaxLen
    /\ Len(gen_br_name(pid, nextid)) <= NameMaxLen
    /\ \A m \in 0..(nextid - 1) :
         /\ gen_if_name(pid, m) # gen_if_name(pid, nextid)
         /\ gen_br_name(pid, m) # gen_br_name(pid, nextid)
         /\ gen_if_name(pid, m) # gen_br_name(pid, nextid)
         /\ gen_br_name(pid, m) # gen_if_name(pid, nextid)

(***************************************************************************)
(* C10: ImportedNodeInterface.destroy() on a live object, once the name    *)
(* space's interfaces have been read: when the index is among them, the    *)
(* next call migrates the device to the main name space through the proxy  *)
(* and only after that has succeeded is the original snapshot restored     *)
(* through the backend; when the index is not among them, no migration is  *)
(* issued and the snapshot is restored through the backend.  When destroy  *)
(* returns normally the device is in the main name space with the          *)
(* attributes recorded at adoption, which the constructor took before it   *)
(* renamed and migrated the device.                                        *)
(***************************************************************************)
C10_ImportedRestore ==
    /\ \A node \in Nodes, iface \in Adoptable :
         LET w == ImportedNodeInterface_init(World({}), node, iface) IN
         w.err = 0 =>
            /\ InNs(kern, 0, iface) /\ InNs(w.k, node, iface)
            /\ w.objs[Len(w.objs)].orig = Snapshot(kern, iface)
            /\ w.objs[Len(w.objs)].idx = iface
    /\ \A o \in ObjIds :
         (objs[o].kind = "ImportedNodeInterface" /\ objs[o].slave # 0) =>
           \A F \in OpFailures(3) :
             LET w == ImportedNodeInterface_destroy(World(F), o)
                 d == objs[o].idx
                 sl == objs[o].slave
                 S == objs[o].orig
                 n == Len(w.tr)
             IN  /\ S.index = d
                 /\ w.tr[1].op = "get_if_data" /\ w.tr[1].via = sl
                 /\ (w.tr[1].ok /\ d \in DevsIn(kern, sl)) =>
                       /\ n >= 2
                       /\ w.tr[2].op = "change_netns" /\ w.tr[2].via = sl
                       /\ w.tr[2].dev = d /\ w.tr[2].arg.target = 0
                       /\ IF w.tr[2].ok
                          THEN /\ n = 3 /\ w.tr[3].op = "set_if"
                               /\ w.tr[3].via = 0 /\ w.tr[3].arg = S
                          ELSE n = 2 /\ w.err = 2
                 /\ (w.tr[1].ok /\ d \notin DevsIn(kern, sl)) =>
                       /\ n = 2 /\ w.tr[2].op = "set_if"
                       /\ w.tr[2].via = 0 /\ w.tr[2].arg = S
                 /\ w.err = 0 =>
                       /\ InNs(w.k, 0, d) /\ Snapshot(w.k, d) = S
                       /\ w.objs[o].slave = 0

\* Two live ImportedNodeInterface objects, the device of one still in its
\* name space, the device of the other back in the main one; destroy()
\* restores each.
C10_Witness ==
    \E o1 \in ObjIds, o2 \in ObjIds :
        LET w1 == ImportedNodeInterface_destroy(World({}), o1)
            w2 == ImportedNodeInterface_destroy(World({}), o2)
            d1 == objs[o1].idx
            d2 == objs[o2].idx
        IN  /\ objs[o1].kind = "ImportedNodeInterface" /\ objs[o1].slave # 0
            /\ objs[o2].kind = "ImportedNodeInterface" /\ objs[o2].slave # 0
            /\ d1 \in DevsIn(kern, objs[o1].slave)
            /\ d2 \in DevsIn(kern, 0)
            /\ Snapshot(kern, d1) # objs[o1].orig
            /\ Snapshot(kern, d2) # objs[o2].orig
            /\ Len(w1.tr) = 3 /\ w1.err = 0 /\ w1.tr[2].op = "change_netns"
            /\ InNs(w1.k, 0, d1) /\ Snapshot(w1.k, d1) = objs[o1].orig
            /\ Len(w2.tr) = 2 /\ w2.err = 0
            /\ InNs(w2.k, 0, d2) /\ Snapshot(w2.k, d2) = objs[o2].orig

(***************************************************************************)
(* C11: when the renaming set_if or the migration fails in                 *)
(* ImportedNodeInterface.__init__ (and nothing else fails), the error is   *)
(* raised with the device still in the main name space under its original  *)
(* name and with its original attributes.                                  *)
(***************************************************************************)
C11_ImportedUnwound ==
    \A node \in Nodes, iface \in Adoptable : \A F \in {{2}, {3}} :
        LET w == ImportedNodeInterface_init(World(F), node, iface) IN
        (InNs(kern, 0, iface) /\ Failed(w) # {}) =>
            /\ w.err # 0
            /\ InNs(w.k, 0, iface)
            /\ Snapshot(w.k, iface) = Snapshot(kern, iface)
            /\ w.objs = objs /\ w.reg = reg

(***************************************************************************)
(* C12: when Link.connect(interface) on a live Link raises because one of  *)
(* its calls failed (the shaping, the enslaving, or the reads and writes   *)
(* that synchronize up and mtu), the port, which was free before, is not a *)
(* member of the bridge, has no shaping and is not registered in ports.    *)
(***************************************************************************)
C12_ConnectNoIntermediate ==
    \A l \in LinkIds, iface \in IfaceIds :
      \A j \in 1..Calls(Link_connect(World({}), l, iface)) :
        LET c == Control(objs, iface)
            ci == objs[c].idx
            w == Link_connect(World({j}), l, iface)
        IN  (/\ c # 0 /\ objs[l].idx # 0
             /\ InNs(kern, 0, ci) /\ kern[ci].master = 0
             /\ ci \notin PortKeys(objs[l].ports)
             /\ Link_connect(World({}), l, iface).err = 0) =>
                /\ w.err # 0
                /\ w.k[ci].master # objs[l].idx
                /\ w.k[ci].tc = {}
                /\ ci \notin PortKeys(w.objs[l].ports)

(***************************************************************************)
(* C13: Link.disconnect(interface) on a registered port, when the removal  *)
(* from the bridge succeeds and the clearing of the shaping fails: the     *)
(* failure is raised and the port's index is no longer in the Link's       *)
(* ports.                                                                  *)
(***************************************************************************)
C13_DisconnectDeregisters ==
    \A l \in LinkIds, iface \in IfaceIds :
        LET c == Control(objs, iface)
            ci == objs[c].idx
            w == Link_disconnect(World({2}), l, iface)
        IN  (/\ c # 0 /\ ci \in PortKeys(objs[l].ports)
             /\ Len(w.tr) = 2 /\ w.tr[1].ok /\ ~w.tr[2].ok) =>
                /\ w.err = 2
                /\ w.k[ci].master # objs[l].idx
                /\ ci \notin PortKeys(w.objs[l].ports)

(***************************************************************************)
(* C14: the index of every object keeps its value through attribute        *)
(* assignment, connect, disconnect and set_parameters, and it is None on   *)
(* every object, interface or Link, on which destroy() has returned        *)
(* normally.                                                               *)
(***************************************************************************)
SameIndices(w) == \A o \in ObjIds : w.objs[o].idx = objs[o].idx

C14_IndexLifetime ==
    /\ \A o \in ObjIds, a \in {"mtu", "up"} : \A v \in AttrVals(a) :
         SameIndices(setattr(World({}), o, a, v))
    /\ \A l \in LinkIds, iface \in IfaceIds :
         /\ SameIndices(Link_connect(World({}), l, iface))
         /\ SameIndices(Link_disconnect(World({}), l, iface))
    /\ \A l \in LinkIds, P2 \in ParamInputs :
         SameIndices(Link_set_parameters(World({}), l, P2))
    /\ \A o \in dead : objs[o].idx = 0

(***************************************************************************)
(* C16: when NodeInterface.__init__, P2PInterface.create_pair,             *)
(* Link.set_parameters or Link.connect raises the error of a failed call,  *)
(* that call is the first one that failed: a failure of the compensating   *)
(* step that follows never takes the place of the failure that triggered   *)
(* it.                                                                     *)
(***************************************************************************)
FirstFailure(w) == CHOOSE i \in Failed(w) : \A j \in Failed(w) : i <= j
PrimaryReported(w) == w.err > 0 => w.err = FirstFailure(w)

C16_PrimaryErrorKept ==
    /\ \A node \in Nodes : \A F \in OpFailures(2) :
         PrimaryReported(NodeInterface_init(World(F), node))
    /\ \A node1 \in Nodes, node2 \in Nodes : \A F \in OpFailures(3) :
         PrimaryReported(P2PInterface_create_pair(World(F), node1, node2))
    /\ \A l \in LinkIds, P2 \in ParamInputs :
         \A F \in OpFailures(Calls(Link_set_parameters(World({}), l, P2))) :
           PrimaryReported(Link_set_parameters(World(F), l, P2))
    /\ \A l \in LinkIds, iface \in IfaceIds :
         \A F \in OpFailures(Calls(Link_connect(World({}), l, iface))) :
           PrimaryReported(Link_connect(World(F), l, iface))

(***************************************************************************)
(* C17: once destroy() has returned normally on an interface, the index of *)
(* its control interface is a key of no Link's ports.                      *)
(***************************************************************************)
C17_NoPortOfDestroyed ==
    \A o \in dead : \A l \in LinkIds :
        (objs[o].kind # "Link" /\ Control(objs, o) # 0) =>
            objs[Control(objs, o)].idx \notin PortKeys(objs[l].ports)

(***************************************************************************)
(* C15: every port registered in a Link's ports has the up and mtu of the  *)
(* bridge: a successful connect leaves it so, an assignment of up or mtu   *)
(* to the Link that returns normally leaves it so with the new value on    *)
(* the ports and on the bridge, and an assignment that raises leaves it so *)
(* as well.                                                                *)
(***************************************************************************)
PortsSynced(os, k, l) ==
    \A p \in os[l].ports :
        /\ InNs(k, 0, p[1])
        /\ k[p[1]].up = k[os[l].idx].up
        /\ k[p[1]].mtu = k[os[l].idx].mtu

C15_PortsMatchBridge ==
    \A l \in LinkIds : (objs[l].idx # 0 /\ PortsSynced(objs, kern, l)) =>
        /\ \A iface \in IfaceIds :
             LET w == Link_connect(World({}), l, iface) IN
             w.err = 0 => PortsSynced(w.objs, w.k, l)
        /\ \A a \in {"mtu", "up"} : \A v \in AttrVals(a) :
             \A F \in OpFailures(Calls(Link_setattr(World({}), l, a, v))) :
               LET w == Link_setattr(World(F), l, a, v) IN
               /\ PortsSynced(w.objs, w.k, l)
               /\ w.err = 0 => w.k[objs[l].idx][a] = v

(***************************************************************************)
(* C18: assigning one attribute to a live name-space interface or to a     *)
(* main-name-space interface reads nothing: it issues exactly one call,    *)
(* set_if through the proxy, respectively the backend, with a record that  *)
(* carries the index and the named field only; when the call succeeds the  *)
(* named field has the value and nothing else in the kernel has changed.   *)
(***************************************************************************)
Assignable == {o \in IfaceIds : objs[o].kind \in NSKinds => objs[o].slave # 0}

C20_ForeignNodeFrame ==
    /\ \A node \in Nodes, iface \in Adoptable : \A F \in OpFailures(1) :
         LET w == ForeignNodeInterface_init(World(F), node, iface) IN
         /\ Len(w.tr) = 1 /\ w.tr[1].op = "get_if" /\ w.tr[1].via = node
         /\ w.k = kern
         /\ w.err # 0 => w.objs = objs /\ w.reg = reg
         /\ w.err = 0 =>
              /\ InNs(kern, node, iface)
              /\ w.objs[Len(w.objs)].orig = Snapshot(kern, iface)
              /\ w.objs[Len(w.objs)].idx = iface
              /\ w.objs[Len(w.objs)].slave = node
    /\ \A o \in ObjIds :
         (objs[o].kind = "ForeignNodeInterface" /\ objs[o].slave # 0) =>
            LET d == objs[o].idx
                sl == objs[o].slave
                S == objs[o].orig
            IN  /\ S.index = d
                /\ \A a \in {"mtu", "up"} : \A v \in AttrVals(a) :
                     LET w == setattr(World({}), o, a, v) IN
                     /\ w.objs = objs
                     /\ w.k[d].ex = kern[d].ex /\ w.k[d].ns = kern[d].ns
                /\ \A F \in OpFailures(2) :
                     LET w == ForeignNodeInterface_destroy(World(F), o) IN
                     /\ \A j \in 1..Len(w.tr) :
                          /\ w.tr[j].op \in {"get_if_data", "set_if"}
                          /\ w.tr[j].via = sl
                          /\ w.tr[j].op = "set_if" => w.tr[j].arg = S
                     /\ \A e \in DevIds :
                          w.k[e].ex = kern[e].ex /\ w.k[e].ns = kern[e].ns
                     /\ (w.err = 0 /\ InNs(kern, sl, d)) =>
                          /\ Len(w.tr) = 2 /\ w.tr[2].op = "set_if"
                          /\ InNs(w.k, sl, d)
                          /\ Snapshot(w.k, d) = S
                          /\ w.objs[o].slave = 0

\* A live ForeignNodeInterface whose interface has had an attribute
\* assigned since adoption; destroy() writes the snapshot back.
C20_Witness ==
    \E o \in ObjIds :
        LET w == ForeignNodeInterface_destroy(World({}), o)
            d == objs[o].idx
        IN  /\ objs[o].kind = "ForeignNodeInterface" /\ objs[o].slave # 0
            /\ nsets > 0
            /\ InNs(kern, objs[o].slave, d)
            /\ Snapshot(kern, d) # objs[o].orig
            /\ w.err = 0 /\ Len(w.tr) = 2
            /\ InNs(w.k, objs[o].slave, d)
            /\ Snapshot(w.k, d) = objs[o].orig

(***************************************************************************)
(* C19: whenever no thread is inside the id generator, the counter has     *)
(* advanced by the number of calls completed, and the values the calls     *)
(* returned, hence the names generated from them, are pairwise different.  *)
(***************************************************************************)
Returned == {<<t, i>> : t \in Threads, i \in 1..MaxThreadCalls}
RECURSIVE CallsDone(_)
CallsDone(T) ==
    IF T = {} THEN 0
    ELSE LET t == CHOOSE x \in T : TRUE
         IN  Len(thr[t].rets) + CallsDone(T \ {t})

C19_ConcurrentIdsDistinct ==
    (\A t \in Threads : thr[t].pc = "idle") =>
        /\ \A c1 \in Returned, c2 \in Returned :
             (/\ c1 # c2
              /\ c1[2] <= Len(thr[c1[1]].rets)
              /\ c2[2] <= Len(thr[c2[1]].rets)) =>
                /\ thr[c1[1]].rets[c1[2]] # thr[c2[1]].rets[c2[2]]
                /\ gen_if_name(pid, thr[c1[1]].rets[c1[2]])
                     # gen_if_name(pid, thr[c2[1]].rets[c2[2]])
        /\ nextid = CallsDone(Threads)

(***************************************************************************)
(* C21: for NodeInterface, P2PInterface, ForeignNodeInterface and          *)
(* ImportedNodeInterface the reference to the proxy is cleared exactly     *)
(* when destroy() completes: it is None on the objects whose destroy() has *)
(* returned normally and on no others; when a call inside destroy() on a   *)
(* live object fails, destroy() raises and leaves the object as it was;    *)
(* when destroy() returns normally every call it issued has succeeded and  *)
(* the teardown call was among them unless the interface was not in the    *)
(* name space; and a destroy() that follows a failed one reads the name    *)
(* space and issues the teardown call again.                               *)
(***************************************************************************)
\* The world a later call starts in: what the failed one left behind.
Later(w) == [w EXCEPT !.tr = <<>>, !.F = {}, !.err = 0]
\* The call of destroy() that follows the reading of the name space.
Teardown(kind, present) ==
    CASE kind \in {"NodeInterface", "P2PInterface"} -> "del_if"
      [] kind = "ForeignNodeInterface" -> "set_if"
      [] OTHER -> IF present THEN "change_netns" ELSE "set_if"

C21_SlaveClearedOnCompletion ==
    \A o \in ObjIds : objs[o].kind \in NSKinds =>
        /\ objs[o].slave = 0 <=> o \in dead
        /\ objs[o].slave # 0 =>
             \A F \in OpFailures(3) :
               LET w == destroy(World(F), o)
                   sl == objs[o].slave
                   d == objs[o].idx
                   kind == objs[o].kind
                   skips(k) == d \notin DevsIn(k, sl)
                                 /\ kind # "ImportedNodeInterface"
               IN  /\ Len(w.tr) >= 1 /\ w.tr[1].op = "get_if_data"
                   /\ Failed(w) # {} <=> w.err # 0
                   /\ w.err # 0 => w.objs = objs
                   /\ w.err = 0 <=> w.objs[o].slave = 0
                   /\ w.err = 0 =>
                        \/ skips(kern) /\ Len(w.tr) = 1
                        \/ /\ ~skips(kern)
                           /\ w.tr[2].op = Teardown(kind, d \in DevsIn(kern, sl))
                           /\ w.tr[2].ok
                   /\ w.err # 0 =>
                        LET w2 == destroy(Later(w), o) IN
                        /\ Len(w2.tr) >= 1 /\ w2.tr[1].op = "get_if_data"
                        /\ w2.tr[1].via = sl
                        /\ ~skips(w.k) =>
                             /\ Len(w2.tr) >= 2
                             /\ w2.tr[2].op = Teardown(kind, d \in DevsIn(w.k, sl))

\* A live ImportedNodeInterface whose restoring set_if fails after the
\* migration back: it stays live, and the destroy() that follows issues
\* the set_if again and completes; another name-space interface has been
\* destroyed and has no proxy reference.
C21_Witness ==
    /\ \E o \in ObjIds :
        LET w == destroy(World({3}), o)
            w2 == destroy(Later(w), o)
        IN  /\ objs[o].kind = "ImportedNodeInterface" /\ objs[o].slave # 0
            /\ Len(w.tr) = 3 /\ w.tr[2].ok /\ ~w.tr[3].ok /\ w.err = 3
            /\ w.objs[o].slave = objs[o].slave
            /\ InNs(w.k, 0, objs[o].idx)
            /\ Len(w2.tr) = 2 /\ w2.tr[2].op = "set_if" /\ w2.err = 0
            /\ w2.objs[o].slave = 0
    /\ \E o \in dead : objs[o].kind \in NSKinds /\ objs[o].slave = 0

====
